---- MODULE Spec2Model ----
(***************************************************************************)
(* A model of the aurora-relayer block indexer (src/src/indexer.ts), of    *)
(* the topic compiler (compileTopics) and of the part of                   *)
(* DatabaseServer.eth_getLogs (src/src/servers/database.ts) that uses it.  *)
(*                                                                         *)
(* The indexer is one sequential async task.  Every `await` of the source  *)
(* is a point where the task is suspended, so every action below is the    *)
(* code that runs from the completion of one await to the next one.        *)
(* The store is a pg.Client used without BEGIN/COMMIT: every query is its  *)
(* own transaction and is visible to other connections as soon as it has   *)
(* been executed.                                                          *)
(***************************************************************************)
EXTENDS Integers, Sequences, FiniteSets, TLC

\* ---------------------------------------------------------------- bounds
\* Number of blocks the upstream chain produces at most.
MaxHeight == 3
\* Largest number of transactions in one source block.
MaxTx == 2
\* Largest number of positions of a topic filter.
MaxPositions == 2
\* Largest number of candidate digests in one position.
MaxCandidates == 2
\* Largest number of topics of an event.
MaxTopics == 2

\* ------------------------------------------------------------- constants
\* The value of SELECT MAX(id) on an empty table (SQL NULL).
SqlNull == -1

\* ----------------------------------------------------------------- state
VARIABLES
    pc,                \* position of the indexer task
    blockID,           \* Indexer.blockID, the watermark
    block,             \* the block metadata indexBlock holds after getBlock
    txPos,             \* position of the for-of iterator over block.transactions
    transactionIndex,  \* the local counter of indexBlock
    fetched,           \* heights this process has requested with engine.getBlock
    chain,             \* the upstream source: the blocks produced so far
    blockTable,        \* rows of table "block", in insertion order
    transactionTable,  \* rows of table "transaction", in insertion order
    storeUp,           \* FALSE: the store rejects the next query
    observed           \* what the last query of a concurrent reader saw

ivars == <<pc, blockID, block, txPos, transactionIndex, fetched, chain,
           blockTable, transactionTable, storeUp, observed>>

\* The query side: one eth_getLogs request and what becomes of its topics.
VARIABLES
    qpc,               \* "request", then "compiled" or "queried"
    topics,            \* filter.topics of the request
    event,             \* the event row the query is evaluated on: its topics
    clauses,           \* the value compileTopics returned
    where,             \* the entries eth_getLogs pushed to `where` for topics
    topicResult        \* does the WHERE text built from `where` admit the event

qvars == <<qpc, topics, event, clauses, where, topicResult>>

\* The RPC handlers of DatabaseServer: one call and what it does.
VARIABLES
    rpcPc,             \* "idle", "called", a position inside the handler, "done"
    request,           \* the method and the arguments of the call
    latestBlockID,     \* eth_getLogs: the id eth_blockNumber() returned
    queries,           \* the queries the call has issued to the store so far
    logsWhere,         \* eth_getLogs: the array `where`
    row,               \* eth_getLogs: the event row the query is evaluated on
    result,            \* what the call returned or threw
    type,              \* the type the handler read from table "filter"
    filterTable,       \* rows of table "filter"
    filterSeq,         \* the id the next row of table "filter" gets
    delivered          \* per filter id, what eth_getFilterChanges returned so far

\* Table "filter" and what the filter handlers keep.
fvars == <<type, filterTable, filterSeq, delivered>>

rvars == <<rpcPc, request, latestBlockID, queries, logsWhere, row, result, fvars>>

\* Everything but the indexer and its store.
rpcvars == <<qvars, rvars>>

NoBlock == [number |-> SqlNull, transactions |-> <<>>]

Running == {"fetch", "sleep", "insertBlock", "insertTx"}

\* ------------------------------------------------------ upstream source
\* The hash of the k-th (1-based) transaction of source block h.
TxHash(h, k) == h * 10 + k

SourceBlock(h, n) ==
    [number |-> h, transactions |-> [k \in 1..n |-> TxHash(h, k)]]

\* Is height h produced?
Produced(h) == h < Len(chain)

\* engine.getBlock(h): the block record of height h.
getBlock(h) == chain[h + 1]

\* ----------------------------------------------------------------- store
BlockIDs == {blockTable[i].id : i \in 1..Len(blockTable)}

SetMax(S) == CHOOSE m \in S : \A x \in S : x <= m

\* SELECT MAX(id)::int AS "maxID" FROM block
MaxID == IF blockTable = <<>> THEN SqlNull ELSE SetMax(BlockIDs)

TxRows(h) == {i \in 1..Len(transactionTable) : transactionTable[i].block = h}

\* A resume that re-ingests the last recorded height.
ResumeFrom_SameHeight(maxID) == IF maxID = SqlNull THEN 0 ELSE maxID

\* this.blockID = maxID === null ? 0 : maxID + 1
ResumeFrom(maxID) == IF maxID = SqlNull THEN 0 ELSE maxID + 1

\* A watermark that advances by two.
NextBlockID_Skip(h) == h + 2

\* this.blockID += 1
NextBlockID(h) == h + 1

\* let transactionIndex = 0
FirstTransactionIndex == 0

\* A counter that is never incremented.
NextTransactionIndex_Stuck(i) == i

\* transactionIndex += 1
NextTransactionIndex(i) == i + 1

\* A loop that leaves out the last transaction.
HasNext_OffByOne(pos, b) == pos < Len(b.transactions)

\* for (const transaction of block.transactions): is there a next element?
HasNext(pos, b) == pos <= Len(b.transactions)

\* sql.insert('block', { id: block.number, ... })
BlockRow(b) == [id |-> b.number]

\* sql.insert('transaction', { block: blockID, index: transactionIndex, hash, ... })
TransactionRow(h, index, transaction) ==
    [block |-> h, index |-> index, hash |-> transaction]

\* ------------------------------------------------------------- indexer
\* The call indexBlock(h) up to its first await: engine.getBlock(h) is issued.
EnterIndexBlock(h) ==
    /\ pc' = "fetch"
    /\ blockID' = h
    /\ fetched' = fetched \cup {h}
    /\ block' = NoBlock
    /\ txPos' = 1
    /\ transactionIndex' = FirstTransactionIndex

\* The for-of loop of indexBlock at iterator position pos with counter index:
\* either the next indexTransaction is issued, or indexBlock returns, start()
\* increments the watermark and calls indexBlock again.
ContinueTransactions(pos, index) ==
    IF HasNext(pos, block)
    THEN /\ pc' = "insertTx"
         /\ block' = block
         /\ txPos' = pos
         /\ transactionIndex' = index
         /\ UNCHANGED <<blockID, fetched>>
    ELSE /\ pc' = "fetch"
         /\ blockID' = NextBlockID(blockID)
         /\ fetched' = fetched \cup {NextBlockID(blockID)}
         /\ block' = NoBlock
         /\ txPos' = 1
         /\ transactionIndex' = FirstTransactionIndex

\* start(): connect, SELECT MAX(id), set the watermark, enter the loop.
Start ==
    /\ pc = "init"
    /\ storeUp
    /\ EnterIndexBlock(ResumeFrom(MaxID))
    /\ UNCHANGED <<chain, blockTable, transactionTable, storeUp, observed>>
    /\ UNCHANGED rpcvars

\* start(): connect() or the MAX(id) query rejects; start() rejects.
StartFail ==
    /\ pc = "init"
    /\ ~storeUp
    /\ pc' = "failed"
    /\ UNCHANGED <<blockID, block, txPos, transactionIndex, fetched, chain,
                   blockTable, transactionTable, storeUp, observed>>
    /\ UNCHANGED rpcvars

\* An indexer that gives up on the first upstream error.
GetBlockErr_GiveUp ==
    /\ pc = "fetch"
    /\ pc' = "failed"
    /\ UNCHANGED <<blockID, block, txPos, transactionIndex, fetched, chain,
                   blockTable, transactionTable, storeUp, observed>>
    /\ UNCHANGED rpcvars

\* engine.getBlock resolves with an error (not produced yet, or any other
\* upstream error): proxy.isErr(), wait 100 ms.
GetBlockErr ==
    /\ pc = "fetch"
    /\ pc' = "sleep"
    /\ UNCHANGED <<blockID, block, txPos, transactionIndex, fetched, chain,
                   blockTable, transactionTable, storeUp, observed>>
    /\ UNCHANGED rpcvars

\* The timer fires: `continue`, engine.getBlock(blockID) is issued again.
Retry ==
    /\ pc = "sleep"
    /\ pc' = "fetch"
    /\ fetched' = fetched \cup {blockID}
    /\ UNCHANGED <<blockID, block, txPos, transactionIndex, chain,
                   blockTable, transactionTable, storeUp, observed>>
    /\ UNCHANGED rpcvars

\* engine.getBlock resolves with the block: the block insert is issued.
GetBlockOk ==
    /\ pc = "fetch"
    /\ Produced(blockID)
    /\ block' = getBlock(blockID)
    /\ pc' = "insertBlock"
    /\ UNCHANGED <<blockID, txPos, transactionIndex, fetched, chain,
                   blockTable, transactionTable, storeUp, observed>>
    /\ UNCHANGED rpcvars

\* engine.getBlock resolves with a record that carries another number than
\* the one asked for, here one the store does not hold: nothing in indexBlock
\* compares block.number with blockID.
GetBlockOther ==
    /\ pc = "fetch"
    /\ \E n \in 0..(Len(chain) - 1) :
          /\ n # blockID
          /\ n \notin BlockIDs
          /\ block' = getBlock(n)
    /\ pc' = "insertBlock"
    /\ UNCHANGED <<blockID, txPos, transactionIndex, fetched, chain,
                   blockTable, transactionTable, storeUp, observed>>
    /\ UNCHANGED rpcvars

\* The block insert is rejected because table block holds the id already
\* (the height is the key of a block): the exception leaves start().
InsertBlockDuplicate ==
    /\ pc = "insertBlock"
    /\ storeUp
    /\ block.number \in BlockIDs
    /\ pc' = "failed"
    /\ UNCHANGED <<blockID, block, txPos, transactionIndex, fetched, chain,
                   blockTable, transactionTable, storeUp, observed>>
    /\ UNCHANGED rpcvars

\* The block insert resolves; the for-of loop starts.
InsertBlock ==
    /\ pc = "insertBlock"
    /\ storeUp
    /\ block.number \notin BlockIDs
    /\ blockTable' = Append(blockTable, BlockRow(block))
    /\ ContinueTransactions(1, FirstTransactionIndex)
    /\ UNCHANGED <<chain, transactionTable, storeUp, observed>>
    /\ UNCHANGED rpcvars

\* The transaction insert of indexTransaction resolves; the loop goes on.
InsertTransaction ==
    /\ pc = "insertTx"
    /\ storeUp
    /\ transactionTable' = Append(transactionTable,
           TransactionRow(blockID, transactionIndex, block.transactions[txPos]))
    /\ ContinueTransactions(txPos + 1, NextTransactionIndex(transactionIndex))
    /\ UNCHANGED <<chain, blockTable, storeUp, observed>>
    /\ UNCHANGED rpcvars

\* A rejected write that is caught and skipped: the loop goes on with h+1.
InsertFail_Swallowed ==
    /\ pc \in {"insertBlock", "insertTx"}
    /\ ~storeUp
    /\ EnterIndexBlock(NextBlockID(blockID))
    /\ UNCHANGED <<chain, blockTable, transactionTable, storeUp, observed>>
    /\ UNCHANGED rpcvars

\* A store write rejects: the exception leaves indexBlock and start().
InsertFail ==
    /\ pc \in {"insertBlock", "insertTx"}
    /\ ~storeUp
    /\ pc' = "failed"
    /\ UNCHANGED <<blockID, block, txPos, transactionIndex, fetched, chain,
                   blockTable, transactionTable, storeUp, observed>>
    /\ UNCHANGED rpcvars

IndexerStep ==
    \/ Start
    \/ StartFail
    \/ GetBlockErr
    \/ Retry
    \/ GetBlockOk
    \/ InsertBlock
    \/ InsertTransaction
    \/ InsertFail

\* --------------------------------------------------------- environment
\* The upstream chain produces its next block.
Produce ==
    /\ Len(chain) < MaxHeight
    /\ \E n \in 0..MaxTx : chain' = Append(chain, SourceBlock(Len(chain), n))
    /\ UNCHANGED <<pc, blockID, block, txPos, transactionIndex, fetched,
                   blockTable, transactionTable, storeUp, observed>>
    /\ UNCHANGED rpcvars

\* The store becomes unavailable / available again.
StoreFault ==
    /\ storeUp
    /\ storeUp' = FALSE
    /\ UNCHANGED <<pc, blockID, block, txPos, transactionIndex, fetched, chain,
                   blockTable, transactionTable, observed>>
    /\ UNCHANGED rpcvars

StoreRecover ==
    /\ ~storeUp
    /\ storeUp' = TRUE
    /\ UNCHANGED <<pc, blockID, block, txPos, transactionIndex, fetched, chain,
                   blockTable, transactionTable, observed>>
    /\ UNCHANGED rpcvars

\* The process dies (killed, or terminated after start() rejected) and a new
\* one is constructed: blockID = 0, nothing else survives but the store.
Restart ==
    /\ pc \in Running \cup {"failed"}
    /\ pc' = "init"
    /\ blockID' = 0
    /\ block' = NoBlock
    /\ txPos' = 1
    /\ transactionIndex' = FirstTransactionIndex
    /\ fetched' = {}
    /\ UNCHANGED <<chain, blockTable, transactionTable, storeUp, observed>>
    /\ UNCHANGED rpcvars

\* A reader on another connection runs one query about height h.
Read ==
    /\ \E h \in 0..(MaxHeight - 1) :
          observed' = [height |-> h,
                       block |-> h \in BlockIDs,
                       transactions |-> Cardinality(TxRows(h))]
    /\ UNCHANGED <<pc, blockID, block, txPos, transactionIndex, fetched, chain,
                   blockTable, transactionTable, storeUp>>
    /\ UNCHANGED rpcvars

\* ---------------------------------------------------- topic compiler
\* Strings are sequences of one-character strings.
LowerHex == <<"0","1","2","3","4","5","6","7","8","9","a","b","c","d","e","f">>
UpperHex == <<"0","1","2","3","4","5","6","7","8","9","A","B","C","D","E","F">>

\* The value of a hex digit, -1 for any other character.
HexValue(c) ==
    IF \E i \in 1..16 : LowerHex[i] = c
    THEN (CHOOSE i \in 1..16 : LowerHex[i] = c) - 1
    ELSE IF \E i \in 1..16 : UpperHex[i] = c
         THEN (CHOOSE i \in 1..16 : UpperHex[i] = c) - 1
         ELSE -1

\* Buffer.from(input.substring(2), 'hex'): one byte per pair of hex digits,
\* decoding stops at the first pair that is not hex; a trailing digit is dropped.
hexToBytes(input) ==
    LET hex == SubSeq(input, 3, Len(input))
        pairs == Len(hex) \div 2
        ok(i) == HexValue(hex[2 * i - 1]) >= 0 /\ HexValue(hex[2 * i]) >= 0
        n == Cardinality({k \in 1..pairs : \A i \in 1..k : ok(i)})
    IN  [i \in 1..n |-> 16 * HexValue(hex[2 * i - 1]) + HexValue(hex[2 * i])]

\* The digests a request may name, as the hex strings of the wire format.
TopicA == <<"0", "x", "0", "a">>
TopicB == <<"0", "x", "0", "B">>
TopicHex == {TopicA, TopicB}

\* The topic values events carry in the store (bytea).
EventTopics == {<<10>>, <<11>>, <<12>>}

\* One position of a topic filter: null, a string, or an array of strings.
Wildcard == [kind |-> "null", topic |-> <<>>, candidates |-> <<>>]
Single(t) == [kind |-> "string", topic |-> t, candidates |-> <<>>]
OneOf(ts) == [kind |-> "array", topic |-> <<>>, candidates |-> ts]

Positions ==
    {Wildcard}
      \cup {Single(t) : t \in TopicHex}
      \cup {OneOf(ts) : ts \in UNION {[1..n -> TopicHex] : n \in 0..MaxCandidates}}

\* filter.topics: undefined, or an array of positions.
NoTopics == [present |-> FALSE, positions |-> <<>>]
Topics(ps) == [present |-> TRUE, positions |-> ps]

TopicFilters ==
    {NoTopics}
      \cup {Topics(ps) : ps \in UNION {[1..n -> Positions] : n \in 0..MaxPositions}}

Events == UNION {[1..n -> EventTopics] : n \in 0..MaxTopics}

\* sql-bricks expressions.  sql.eq(`e.topics[${slot}]`, value):
Eq(slot, value) ==
    [op |-> "=", slot |-> slot, value |-> value, expressions |-> <<>>]

\* sql.and(...expressions), sql.or(...expressions): a Group.
Group(op, expressions) ==
    [op |-> op, slot |-> 0, value |-> <<>>, expressions |-> expressions]

\* The value null.
NullClause == [op |-> "null", slot |-> 0, value |-> <<>>, expressions |-> <<>>]

\* Array.prototype.flat() of an array of arrays.
RECURSIVE Flat(_)
Flat(arrays) ==
    IF arrays = <<>> THEN <<>> ELSE Head(arrays) \o Flat(Tail(arrays))

\* The callback of topics.map: the operands position i (0-based) contributes.
TopicOperands(topic, i) ==
    IF topic.kind = "null" THEN <<>>
    ELSE IF topic.kind = "string"
    THEN <<Eq(i + 1, hexToBytes(topic.topic))>>
    ELSE <<Group("OR",
             Flat([k \in 1..Len(topic.candidates) |->
                     <<Eq(i + 1, hexToBytes(topic.candidates[k]))>>]))>>

\* A guard without the length test.
IsEmptyFilter_NoLength(t) == ~t.present

\* if (!topics || topics.length == 0)
IsEmptyFilter(t) == ~t.present \/ Len(t.positions) = 0

compileTopics(t) ==
    IF IsEmptyFilter(t) THEN NullClause
    ELSE Group("AND",
           Flat([k \in 1..Len(t.positions) |-> TopicOperands(t.positions[k], k - 1)]))

\* ------------------------------------------------- the text of a query
\* Group.toString of sql-bricks: the operands joined by the operator, and
\* parentheses when there is more than one operand.  A comparison is one
\* token; a text is a sequence of tokens.
RECURSIVE Join(_, _)
Join(texts, op) ==
    IF texts = <<>> THEN <<>>
    ELSE IF Len(texts) = 1 THEN Head(texts)
    ELSE Head(texts) \o <<op>> \o Join(Tail(texts), op)

RECURSIVE toString(_)
toString(e) ==
    IF e.op \notin {"AND", "OR"} THEN <<"cmp">>
    ELSE LET text == Join([k \in 1..Len(e.expressions) |->
                             toString(e.expressions[k])], e.op)
         IN  IF Len(e.expressions) > 1 THEN <<"(">> \o text \o <<")">> ELSE text

\* Does the store's parser accept the text as a boolean expression?  The
\* parentheses toString writes are balanced, so it is enough that the text
\* starts and ends with an operand and that an operator stands between
\* operands only.
OperandStart(tok) == tok \in {"cmp", "("}
OperandEnd(tok) == tok \in {"cmp", ")"}

WellFormed(text) ==
    /\ text # <<>>
    /\ OperandStart(text[1])
    /\ OperandEnd(text[Len(text)])
    /\ \A i \in 1..(Len(text) - 1) :
          IF OperandEnd(text[i])
          THEN text[i + 1] \in {"AND", "OR", ")"}
          ELSE OperandStart(text[i + 1])

\* e.topics[slot] of an event: SQL NULL beyond the end of the array.
\* Evaluation of an expression in SQL's three-valued logic: "T", "F", "N".
RECURSIVE Eval(_, _)
Eval(e, ev) ==
    IF e.op = "="
    THEN IF e.slot > Len(ev) THEN "N"
         ELSE IF ev[e.slot] = e.value THEN "T" ELSE "F"
    ELSE LET vals == {Eval(e.expressions[k], ev) : k \in 1..Len(e.expressions)}
         IN  IF e.op = "OR"
             THEN IF "T" \in vals THEN "T" ELSE IF "N" \in vals THEN "N" ELSE "F"
             ELSE IF "F" \in vals THEN "F" ELSE IF "N" \in vals THEN "N" ELSE "T"

\* The outcome of a query whose WHERE holds the expressions of `entries`
\* for one event row: the store rejects a malformed text; a row is returned
\* when every entry is true.
Admits(entries, ev) ==
    IF \E k \in 1..Len(entries) : ~WellFormed(toString(entries[k]))
    THEN "error"
    ELSE IF \A k \in 1..Len(entries) : Eval(entries[k], ev) = "T"
         THEN "match" ELSE "nomatch"

\* eth_getLogs: if (filter.topics) { clauses = compileTopics(...);
\* if (clauses) where.push(clauses) }.  An array, even [], is truthy.
TopicWhere(t) ==
    IF ~t.present THEN <<>>
    ELSE LET compiled == compileTopics(t)
         IN  IF compiled = NullClause THEN <<>> ELSE <<compiled>>

\* A direct call of compileTopics.
CompileTopics ==
    /\ qpc = "request"
    /\ qpc' = "compiled"
    /\ clauses' = compileTopics(topics)
    /\ UNCHANGED <<topics, event, where, topicResult>>
    /\ UNCHANGED <<ivars, rvars>>

\* eth_getLogs, as far as the topics of the request go: the entries pushed to
\* `where`, and the outcome of the query for one event row.
GetLogs ==
    /\ qpc = "request"
    /\ qpc' = "queried"
    /\ where' = TopicWhere(topics)
    /\ \E ev \in Events :
          /\ event' = ev
          /\ topicResult' = Admits(where', ev)
    /\ UNCHANGED <<topics, clauses>>
    /\ UNCHANGED <<ivars, rvars>>

QueryIdle ==
    /\ qpc = "idle"
    /\ topics = NoTopics
    /\ event = <<>>
    /\ clauses = NullClause
    /\ where = <<>>
    /\ topicResult = "none"

TopicsInit ==
    /\ qpc = "request"
    /\ topics \in TopicFilters
    /\ event = <<>>
    /\ clauses = NullClause
    /\ where = <<>>
    /\ topicResult = "none"

\* ------------------------------------------------------------ numbers
\* Block ids of the store (blockno, handed back as BigInt) and JavaScript
\* Numbers are written in binary, most significant bit first, without
\* leading zeros; zero is the empty sequence.
RECURSIVE Bits(_)
Bits(n) == IF n = 0 THEN <<>> ELSE Bits(n \div 2) \o <<n % 2>>

RECURSIVE StripZeros(_)
StripZeros(bits) ==
    IF bits # <<>> /\ Head(bits) = 0 THEN StripZeros(Tail(bits)) ELSE bits

Zeros(n) == [i \in 1..n |-> 0]

\* a >= b for two numbers in binary.
GreaterEq(a, b) ==
    \/ Len(a) > Len(b)
    \/ /\ Len(a) = Len(b)
       /\ \/ a = b
          \/ \E i \in 1..Len(a) :
                /\ a[i] > b[i]
                /\ \A j \in 1..(i - 1) : a[j] = b[j]

\* The bits of a significand of a JavaScript Number (IEEE 754 double).
MantissaBits == 53

\* bits + 1, for a sequence of exactly MantissaBits bits that may overflow.
Increment(bits) ==
    IF \A i \in 1..Len(bits) : bits[i] = 1
    THEN <<1>> \o Zeros(Len(bits))
    ELSE LET j == CHOOSE k \in 1..Len(bits) :
                     bits[k] = 0 /\ \A l \in (k + 1)..Len(bits) : bits[l] = 1
         IN  SubSeq(bits, 1, j - 1) \o <<1>> \o Zeros(Len(bits) - j)

\* The Number nearest to a non-negative integer: the first MantissaBits bits,
\* rounded to nearest, ties to even.
ToNumber(bits) ==
    IF Len(bits) <= MantissaBits THEN bits
    ELSE LET m == SubSeq(bits, 1, MantissaBits)
             rest == SubSeq(bits, MantissaBits + 1, Len(bits))
             sticky == \E i \in 2..Len(rest) : rest[i] = 1
             up == rest[1] = 1 /\ (sticky \/ m[MantissaBits] = 1)
         IN  (IF up THEN Increment(m) ELSE m) \o Zeros(Len(rest))

\* The four bits of a hex digit.
DigitBits(c) ==
    LET v == HexValue(c) IN <<v \div 8, (v \div 4) % 2, (v \div 2) % 2, v % 2>>

RECURSIVE DigitsBits(_)
DigitsBits(digits) ==
    IF digits = <<>> THEN <<>>
    ELSE DigitBits(Head(digits)) \o DigitsBits(Tail(digits))

NaN == [nan |-> TRUE, bits |-> <<>>]

\* Does the text start with 0x or 0X?
HasHexPrefix(text) == Len(text) >= 2 /\ text[1] = "0" /\ text[2] \in {"x", "X"}

\* parseInt(text, 16) for a text without leading blanks and sign: an optional
\* 0x, then the longest run of hex digits; NaN when that run is empty;
\* whatever follows the run is ignored.  The value is a Number.
parseInt16(text) ==
    LET body == IF HasHexPrefix(text) THEN SubSeq(text, 3, Len(text)) ELSE text
        n == Cardinality({k \in 1..Len(body) :
                            \A i \in 1..k : HexValue(body[i]) >= 0})
    IN  IF n = 0 THEN NaN
        ELSE [nan |-> FALSE,
              bits |-> ToNumber(StripZeros(DigitsBits(SubSeq(body, 1, n))))]

\* ------------------------------------------------------ block specifiers
Earliest == <<"e", "a", "r", "l", "i", "e", "s", "t">>
Latest == <<"l", "a", "t", "e", "s", "t">>
Pending == <<"p", "e", "n", "d", "i", "n", "g">>

\* 0x0, 0x1, 0x2; 2^53 + 1; a hex prefix followed by a letter; no hex at all.
Hex0 == <<"0", "x", "0">>
Hex1 == <<"0", "x", "1">>
Hex2 == <<"0", "x", "2">>
HexBig == <<"0", "x", "2", "0", "0", "0", "0", "0", "0", "0",
            "0", "0", "0", "0", "0", "1">>
Hex1g == <<"0", "x", "1", "g">>
NotHex == <<"z", "z">>

\* An optional string argument.
Absent == [present |-> FALSE, text |-> <<>>]
Given(text) == [present |-> TRUE, text |-> text]

BlockSpecs ==
    {Absent} \cup {Given(t) : t \in {Earliest, Latest, Pending, Hex0, Hex1, Hex2,
                                     HexBig, Hex1g, NotHex}}

\* What a function returns or throws.
Returns(kind, data) == [kind |-> kind, data |-> data]
Throws(message) == [kind |-> "error", data |-> <<message>>]
NoResult == Returns("none", <<>>)

\* resolveBlockSpec(latestBlockID, blockSpec)
resolveBlockSpec(latest, blockSpec) ==
    IF ~blockSpec.present THEN Returns("height", latest)
    ELSE IF blockSpec.text = Earliest THEN Returns("height", <<>>)
    ELSE IF blockSpec.text = Latest THEN Returns("height", latest)
    ELSE IF blockSpec.text = Pending THEN Returns("height", latest)
    ELSE LET blockID_ == parseInt16(blockSpec.text)
         IN  IF blockID_.nan THEN Throws("invalid block ID")
             ELSE Returns("height", blockID_.bits)

\* ---------------------------------------------------------- eth_getLogs
\* The hash of the block of height h, and the hex strings requests name.
BlockHashOf(h) == <<h + 1>>
HashOfBlock0 == <<"0", "x", "0", "1">>
HashOfBlock1 == <<"0", "x", "0", "2">>

BlockHashes == {Absent, Given(HashOfBlock0), Given(HashOfBlock1)}

\* A request: the method and its arguments (the ones a method does not take
\* are absent).
Request(method, blockHash, fromBlock, toBlock, id) ==
    [method |-> method, blockHash |-> blockHash, fromBlock |-> fromBlock,
     toBlock |-> toBlock, id |-> id]

LogsRequests ==
    {Request("eth_getLogs", bh, f, t, <<>>) :
        bh \in BlockHashes, f \in BlockSpecs, t \in BlockSpecs}

ResolveRequests ==
    {Request("resolveBlockSpec", Absent, f, Absent, <<>>) : f \in BlockSpecs}

\* { 'b.hash': ... }, sql.gte('b.id', ...), sql.lte('b.id', ...)
HashIs(bytes) == [op |-> "b.hash =", slot |-> 0, value |-> bytes, expressions |-> <<>>]
Gte(height) == [op |-> "b.id >=", slot |-> 0, value |-> height, expressions |-> <<>>]
Lte(height) == [op |-> "b.id <=", slot |-> 0, value |-> height, expressions |-> <<>>]

\* if (fromBlock), if (toBlock): 0 and 0n are falsy.
Truthy(height) == height # <<>>

\* if (bound) { where.push(clause) }
PushBound(height, clause) == IF Truthy(height) THEN <<clause>> ELSE <<>>

\* The range entries of `where`: resolve fromBlock, then toBlock.
RangeWhere(latest, fromBlock, toBlock) ==
    LET from == resolveBlockSpec(latest, fromBlock)
        to == resolveBlockSpec(latest, toBlock)
    IN  IF from.kind = "error" THEN from
        ELSE IF to.kind = "error" THEN to
        ELSE Returns("where", PushBound(from.data, Gte(from.data))
                                \o PushBound(to.data, Lte(to.data)))

\* A block part that adds the range to the hash.
BlockWhere_Both(latest, req) ==
    IF req.blockHash.present
    THEN LET range == RangeWhere(latest, req.fromBlock, req.toBlock)
         IN  IF range.kind = "error" THEN range
             ELSE Returns("where",
                      <<HashIs(hexToBytes(req.blockHash.text))>> \o range.data)
    ELSE RangeWhere(latest, req.fromBlock, req.toBlock)

\* if (filter.blockHash !== undefined && filter.blockHash !== null) ... else ...
BlockWhere(latest, req) ==
    IF req.blockHash.present
    THEN Returns("where", <<HashIs(hexToBytes(req.blockHash.text))>>)
    ELSE RangeWhere(latest, req.fromBlock, req.toBlock)

\* An event row joined with its transaction and block.
EventRow(h, eventTopics) ==
    [block |-> Bits(h), hash |-> BlockHashOf(h), topics |-> eventTopics]

\* The truth value of one entry of `where` for a row.
EntryValue(e, r) ==
    IF e.op = "b.hash =" THEN (IF r.hash = e.value THEN "T" ELSE "F")
    ELSE IF e.op = "b.id >=" THEN (IF GreaterEq(r.block, e.value) THEN "T" ELSE "F")
    ELSE IF e.op = "b.id <=" THEN (IF GreaterEq(e.value, r.block) THEN "T" ELSE "F")
    ELSE Eval(e, r.topics)

\* The query .where(sql.and(...where)) for one row: the store rejects a
\* malformed text, and an AND group without operands has an empty text.
RunLogsQuery(entries, r) ==
    IF ~WellFormed(toString(Group("AND", entries))) THEN Throws("syntax error")
    ELSE IF \A k \in 1..Len(entries) : EntryValue(entries[k], r) = "T"
         THEN Returns("rows", <<r>>)
         ELSE Returns("rows", <<>>)

\* ------------------------------------------------------------- filters
MaxFilters == 2

\* The ids requests name: 0x0, 0x1, 0x2 and a text that is no number.
FilterIDs == {Hex0, Hex1, Hex2, NotHex}

FilterMethods == {"eth_getFilterChanges", "eth_getFilterLogs", "eth_uninstallFilter"}
NewFilterMethods == {"eth_newBlockFilter", "eth_newPendingTransactionFilter"}

FilterRequests ==
    {Request(m, Absent, Absent, Absent, id) : m \in FilterMethods, id \in FilterIDs}
        \cup {Request(m, Absent, Absent, Absent, <<>>) : m \in NewFilterMethods}

NoType == "none"

\* A row of table "filter": the cursor is the last block id already returned,
\* `created` the store's maximum block id when the filter was created.
FilterRow(id, filterType, height) ==
    [id |-> id, type |-> filterType, created |-> height, cursor |-> height]

\* Nothing has been returned for any filter.
NothingDelivered == [f \in 1..MaxFilters |-> [items |-> {}, quiet |-> FALSE]]

\* Table "filter" holds the rows of `table`, none of them polled yet.
FilterStore(table) ==
    /\ filterTable = table
    /\ filterSeq = Cardinality(table) + 1
    /\ delivered = NothingDelivered

NoFilters == type = NoType /\ FilterStore({})

\* No filter, or one filter of either type, created on the empty store.
FilterStores ==
    {{}} \cup {{FilterRow(1, t, SqlNull)} : t \in {"block", "event", "transaction"}}

\* The rows of table "filter" with the id a handler parsed.
FilterRows(filterID_) ==
    {f \in filterTable : ~filterID_.nan /\ Bits(f.id) = filterID_.bits}

\* filterID_ === 0: NaN is not 0.
IsZero(filterID_) == ~filterID_.nan /\ filterID_.bits = <<>>

\* The hashes of the blocks with lower < id <= MAX(id), in ascending order.
HashesAfter(lower) ==
    IF MaxID = SqlNull \/ MaxID <= lower THEN <<>>
    ELSE [i \in 1..(MaxID - lower) |-> BlockHashOf(lower + i)]

\* The stored functions behind the filter handlers.  The rows they return
\* and the row of the filter afterwards.
RunFilterFunction(name, f) ==
    IF name = "eth_getFilterChanges_block"
    THEN [rows |-> HashesAfter(f.cursor),
          filter |-> [f EXCEPT !.cursor = IF MaxID > f.cursor THEN MaxID ELSE f.cursor]]
    ELSE IF name = "eth_getFilterLogs_block"
    THEN [rows |-> HashesAfter(f.created), filter |-> f]
    ELSE [rows |-> <<>>, filter |-> f]

\* A handler that answers polls with the function of eth_getFilterLogs.
FilterFunction_Logs(method, filterType) ==
    IF filterType = "block" THEN "eth_getFilterLogs_block"
    ELSE IF filterType = "event" THEN "eth_getFilterLogs_event"
    ELSE "none"

\* switch (type): the stored function a handler calls, none for
\* 'transaction' and default.
FilterFunction(method, filterType) ==
    IF filterType = "block"
    THEN (IF method = "eth_getFilterChanges" THEN "eth_getFilterChanges_block"
          ELSE "eth_getFilterLogs_block")
    ELSE IF filterType = "event"
    THEN (IF method = "eth_getFilterChanges" THEN "eth_getFilterChanges_event"
          ELSE "eth_getFilterLogs_event")
    ELSE "none"

\* A filter handler that goes to the store for every id.
ShortCircuits_Never(filterID_) == FALSE

\* if (filterID_ === 0) return ...
ShortCircuits(filterID_) == IsZero(filterID_)

\* The items of a result, as a set.
Items(rows) == {rows[i] : i \in 1..Len(rows)}

\* What a poll that returned `rows` for the filters fs adds to `delivered`.
Deliver(fs, rows) ==
    [g \in 1..MaxFilters |->
        IF \E f \in fs : f.id = g
        THEN [items |-> delivered[g].items \cup Items(rows), quiet |-> TRUE]
        ELSE delivered[g]]

\* eth_getFilterChanges and eth_getFilterLogs up to the first await: parse the
\* id, return [] for 0, else read the filter's type.
FilterType ==
    /\ rpcPc = "called"
    /\ request.method \in {"eth_getFilterChanges", "eth_getFilterLogs"}
    /\ LET filterID_ == parseInt16(request.id)
       IN  IF ShortCircuits(filterID_)
           THEN /\ rpcPc' = "done"
                /\ result' = Returns("rows", <<>>)
                /\ UNCHANGED <<queries, type>>
           ELSE /\ queries' = Append(queries, "select type from filter")
                /\ IF ~storeUp \/ filterID_.nan
                   THEN /\ rpcPc' = "done"
                        /\ result' = Throws("store")
                        /\ UNCHANGED type
                   ELSE IF FilterRows(filterID_) = {}
                   THEN /\ rpcPc' = "done"
                        /\ result' = Throws("TypeError")
                        /\ UNCHANGED type
                   ELSE /\ rpcPc' = "type"
                        /\ \E f \in FilterRows(filterID_) : type' = f.type
                        /\ UNCHANGED result
    /\ UNCHANGED <<request, latestBlockID, logsWhere, row, filterTable,
                   filterSeq, delivered>>
    /\ UNCHANGED <<ivars, qvars>>

\* ... and from there: switch (type), the stored function, the result.
FilterPoll ==
    /\ rpcPc = "type"
    /\ rpcPc' = "done"
    /\ LET name == FilterFunction(request.method, type)
           fs == FilterRows(parseInt16(request.id))
       IN  IF name = "none"
           THEN /\ result' = Returns("rows", <<>>)
                /\ UNCHANGED <<queries, filterTable, delivered>>
           ELSE /\ queries' = Append(queries, name)
                /\ IF ~storeUp
                   THEN /\ result' = Throws("store")
                        /\ UNCHANGED <<filterTable, delivered>>
                   ELSE IF fs = {}
                   THEN /\ result' = Returns("rows", <<>>)
                        /\ UNCHANGED <<filterTable, delivered>>
                   ELSE \E f \in fs :
                        LET out == RunFilterFunction(name, f)
                        IN  /\ result' = Returns("rows", out.rows)
                            /\ filterTable' = (filterTable \ {f}) \cup {out.filter}
                            /\ delivered' =
                                  IF request.method = "eth_getFilterChanges"
                                  THEN Deliver(fs, out.rows) ELSE delivered
    /\ UNCHANGED <<request, latestBlockID, logsWhere, row, type, filterSeq>>
    /\ UNCHANGED <<ivars, qvars>>

\* eth_uninstallFilter
UninstallFilter ==
    /\ rpcPc = "called"
    /\ request.method = "eth_uninstallFilter"
    /\ rpcPc' = "done"
    /\ LET filterID_ == parseInt16(request.id)
       IN  IF ShortCircuits(filterID_)
           THEN /\ result' = Returns("true", <<>>)
                /\ UNCHANGED <<queries, filterTable>>
           ELSE /\ queries' = Append(queries, "eth_uninstallFilter")
                /\ IF ~storeUp \/ filterID_.nan
                   THEN /\ result' = Throws("store")
                        /\ UNCHANGED filterTable
                   ELSE /\ result' = IF FilterRows(filterID_) # {}
                                     THEN Returns("true", <<>>)
                                     ELSE Returns("false", <<>>)
                        /\ filterTable' = filterTable \ FilterRows(filterID_)
    /\ UNCHANGED <<request, latestBlockID, logsWhere, row, type, filterSeq,
                   delivered>>
    /\ UNCHANGED <<ivars, qvars>>

\* eth_newBlockFilter, eth_newPendingTransactionFilter
NewFilter ==
    /\ rpcPc = "called"
    /\ request.method \in NewFilterMethods
    /\ filterSeq <= MaxFilters
    /\ rpcPc' = "done"
    /\ queries' = Append(queries, request.method)
    /\ IF ~storeUp
       THEN /\ result' = Throws("store")
            /\ UNCHANGED <<filterTable, filterSeq>>
       ELSE /\ result' = Returns("id", Bits(filterSeq))
            /\ filterTable' = filterTable \cup
                  {FilterRow(filterSeq,
                             IF request.method = "eth_newBlockFilter"
                             THEN "block" ELSE "transaction",
                             MaxID)}
            /\ filterSeq' = filterSeq + 1
    /\ UNCHANGED <<request, latestBlockID, logsWhere, row, type, delivered>>
    /\ UNCHANGED <<ivars, qvars>>

\* The next call of a client that polls filters.
CallFilter ==
    /\ rpcPc \in {"idle", "done"}
    /\ rpcPc' = "called"
    /\ request' \in FilterRequests
    /\ request'.method \in NewFilterMethods => filterSeq <= MaxFilters
    /\ queries' = <<>>
    /\ result' = NoResult
    /\ type' = NoType
    /\ UNCHANGED <<latestBlockID, logsWhere, row, filterTable, filterSeq, delivered>>
    /\ UNCHANGED <<ivars, qvars>>

\* The indexer commits the next block: the block and its transactions are
\* in the store.
CommitBlock ==
    /\ Len(blockTable) < MaxHeight
    /\ blockTable' = Append(blockTable, BlockRow(SourceBlock(Len(blockTable), 1)))
    /\ transactionTable' =
          Append(transactionTable,
                 TransactionRow(Len(blockTable), FirstTransactionIndex,
                                TxHash(Len(blockTable), 1)))
    /\ delivered' = [g \in 1..MaxFilters |-> [delivered[g] EXCEPT !.quiet = FALSE]]
    /\ UNCHANGED <<pc, blockID, block, txPos, transactionIndex, fetched, chain,
                   storeUp, observed>>
    /\ UNCHANGED <<rpcPc, request, latestBlockID, queries, logsWhere, row, result,
                   type, filterTable, filterSeq>>
    /\ UNCHANGED qvars

\* --------------------------------------------------------------- lookups
BlockLookups == {"eth_getBlockByHash", "eth_getBlockByNumber"}
TransactionLookups ==
    {"eth_getTransactionByHash", "eth_getTransactionByBlockHashAndIndex",
     "eth_getTransactionByBlockNumberAndIndex"}

\* The hash of the transaction of block 0, of block 1, and of none.
HashOfTx0 == <<"0", "x", "0", "1">>
HashOfTx1 == <<"0", "x", "0", "b">>
HashOfNoTx == <<"0", "x", "6", "3">>

\* A request names its block by blockHash or by number (fromBlock), and its
\* transaction by hash or by index (id).
LookupRequests ==
    {Request("eth_getBlockByHash", Given(h), Absent, Absent, <<>>) :
        h \in {HashOfBlock0, HashOfBlock1}}
    \cup {Request("eth_getBlockByNumber", Absent, Given(b), Absent, <<>>) :
        b \in {Hex0, Hex1, Hex2}}
    \cup {Request("eth_getTransactionByHash", Absent, Absent, Absent, t) :
        t \in {HashOfTx0, HashOfTx1, HashOfNoTx}}
    \cup {Request("eth_getTransactionByBlockHashAndIndex", Given(h), Absent, Absent, i) :
        h \in {HashOfBlock0, HashOfBlock1}, i \in {Hex0, Hex1}}
    \cup {Request("eth_getTransactionByBlockNumberAndIndex", Absent, Given(b), Absent, i) :
        b \in {Hex0, Hex1, Hex2}, i \in {Hex0, Hex1}}

\* The rows of table "block" a block lookup selects.
BlockRowsFor(req) ==
    LET hit(r) ==
            IF req.method = "eth_getBlockByHash"
            THEN BlockHashOf(r.id) = hexToBytes(req.blockHash.text)
            ELSE Bits(r.id) = parseInt16(req.fromBlock.text).bits
    IN  SelectSeq(blockTable, hit)

\* The rows of table "transaction" a transaction lookup selects.  parseInt
\* without a radix reads a 0x text as hex.
TransactionRowsFor(req) ==
    LET hit(r) ==
            IF req.method = "eth_getTransactionByHash"
            THEN <<r.hash>> = hexToBytes(req.id)
            ELSE /\ Bits(r.index) = parseInt16(req.id).bits
                 /\ IF req.method = "eth_getTransactionByBlockHashAndIndex"
                    THEN BlockHashOf(r.block) = hexToBytes(req.blockHash.text)
                    ELSE Bits(r.block) = parseInt16(req.fromBlock.text).bits
    IN  SelectSeq(transactionTable, hit)

\* catch (error) { ...; return null; }
Caught(error) == Returns("null", <<>>)

\* eth_getBlockByHash, eth_getBlockByNumber, eth_getTransactionByHash,
\* eth_getTransactionByBlockHashAndIndex, eth_getTransactionByBlockNumberAndIndex
Lookup ==
    /\ rpcPc = "called"
    /\ request.method \in BlockLookups \cup TransactionLookups
    /\ rpcPc' = "done"
    /\ queries' = Append(queries, request.method)
    /\ result' =
          IF ~storeUp THEN Caught(Throws("store"))
          ELSE IF request.method \in BlockLookups
          THEN Returns("rows", BlockRowsFor(request))
          ELSE LET rows == TransactionRowsFor(request)
               IN  IF Len(rows) > 0 THEN Returns("object", <<rows[1]>>)
                   ELSE Returns("null", <<>>)
    /\ UNCHANGED <<request, latestBlockID, logsWhere, row, fvars>>
    /\ UNCHANGED <<ivars, qvars>>

\* A direct call of resolveBlockSpec with the store's latest block id.
ResolveBlockSpec ==
    /\ rpcPc = "called"
    /\ request.method = "resolveBlockSpec"
    /\ rpcPc' = "done"
    /\ latestBlockID' = Bits(MaxID)
    /\ result' = resolveBlockSpec(Bits(MaxID), request.fromBlock)
    /\ UNCHANGED <<request, queries, logsWhere, row, fvars>>
    /\ UNCHANGED <<ivars, qvars>>

\* eth_getLogs up to its first await: SELECT eth_blockNumber().
GetLogsLatest ==
    /\ rpcPc = "called"
    /\ request.method = "eth_getLogs"
    /\ queries' = Append(queries, "eth_blockNumber")
    /\ IF storeUp
       THEN /\ rpcPc' = "latest"
            /\ latestBlockID' = Bits(MaxID)
            /\ UNCHANGED result
       ELSE /\ rpcPc' = "done"
            /\ result' = Throws("store")
            /\ UNCHANGED latestBlockID
    /\ UNCHANGED <<request, logsWhere, row, fvars>>
    /\ UNCHANGED <<ivars, qvars>>

\* eth_getLogs from there: build `where`, run the query.
GetLogsSelect ==
    /\ rpcPc = "latest"
    /\ rpcPc' = "done"
    /\ LET blockPart == BlockWhere(latestBlockID, request)
       IN  IF blockPart.kind = "error"
           THEN /\ result' = blockPart
                /\ UNCHANGED <<queries, logsWhere, row>>
           ELSE /\ logsWhere' = blockPart.data \o TopicWhere(topics)
                /\ queries' = Append(queries, "select event")
                /\ \E h \in BlockIDs :
                      /\ row' = EventRow(h, <<>>)
                      /\ result' = IF storeUp THEN RunLogsQuery(logsWhere', row')
                                   ELSE Throws("store")
    /\ UNCHANGED <<request, latestBlockID, fvars>>
    /\ UNCHANGED <<ivars, qvars>>

\* No call is under way.
RpcIdle ==
    /\ rpcPc = "idle"
    /\ request = Request("none", Absent, Absent, Absent, <<>>)
    /\ latestBlockID = <<>>
    /\ queries = <<>>
    /\ logsWhere = <<>>
    /\ row = EventRow(0, <<>>)
    /\ result = NoResult
    /\ NoFilters

\* A store that holds the blocks 0..n-1, each with one transaction.
StoreWithBlocks(n) ==
    /\ pc = "init"
    /\ blockID = 0
    /\ block = NoBlock
    /\ txPos = 1
    /\ transactionIndex = FirstTransactionIndex
    /\ fetched = {}
    /\ chain = <<>>
    /\ blockTable = [h \in 1..n |-> BlockRow(SourceBlock(h - 1, 1))]
    /\ transactionTable =
          [h \in 1..n |-> TransactionRow(h - 1, FirstTransactionIndex, TxHash(h - 1, 1))]
    /\ storeUp \in BOOLEAN
    /\ observed = [height |-> 0, block |-> FALSE, transactions |-> 0]

\* A call of one of the requests of rs has arrived.
Called(rs) ==
    /\ rpcPc = "called"
    /\ request \in rs
    /\ latestBlockID = <<>>
    /\ queries = <<>>
    /\ logsWhere = <<>>
    /\ row = EventRow(0, <<>>)
    /\ result = NoResult
    /\ type = NoType

IndexerInit ==
    /\ pc = "init"
    /\ blockID = 0
    /\ block = NoBlock
    /\ txPos = 1
    /\ transactionIndex = FirstTransactionIndex
    /\ fetched = {}
    /\ chain = <<>>
    /\ blockTable = <<>>
    /\ transactionTable = <<>>
    /\ storeUp = TRUE
    /\ observed = [height |-> 0, block |-> FALSE, transactions |-> 0]

vars == <<ivars, qvars, rvars>>

Init == IndexerInit /\ QueryIdle /\ RpcIdle

Next ==
    \/ Start
    \/ StartFail
    \/ GetBlockErr
    \/ Retry
    \/ GetBlockOk
    \/ InsertBlock
    \/ InsertTransaction
    \/ InsertFail
    \/ Produce
    \/ StoreFault
    \/ StoreRecover
    \/ Restart

Spec == Init /\ [][Next]_vars

\* The indexer with a reader on another connection.
NextReader ==
    \/ Next
    \/ Read

SpecReader == Init /\ [][NextReader]_vars

\* The indexer without store faults and process deaths, as a process that
\* keeps running: the task is resumed whenever one of its awaits can complete.
LiveNext ==
    \/ Start
    \/ GetBlockErr
    \/ Retry
    \/ GetBlockOk
    \/ InsertBlock
    \/ InsertTransaction
    \/ Produce

LiveSpec == Init /\ [][LiveNext]_vars /\ WF_vars(IndexerStep)

\* The same process, killed and constructed again at any moment: between any
\* two of its awaits, so between any two writes to the store.
CrashNext ==
    \/ LiveNext
    \/ Restart

CrashSpec == Init /\ [][CrashNext]_vars /\ WF_vars(IndexerStep)

\* The indexer on an upstream that may answer a request for height h with the
\* record of another height.
UpstreamNext ==
    \/ Start
    \/ GetBlockErr
    \/ Retry
    \/ GetBlockOk
    \/ GetBlockOther
    \/ InsertBlock
    \/ InsertBlockDuplicate
    \/ InsertTransaction
    \/ Produce
    \/ Restart

UpstreamSpec == Init /\ [][UpstreamNext]_vars

\* The topic compiler on every filter and event within the bounds.
InitTopics == IndexerInit /\ TopicsInit /\ RpcIdle

NextTopics ==
    \/ CompileTopics
    \/ GetLogs

SpecTopics == InitTopics /\ [][NextTopics]_vars

\* One call of an RPC handler on a store that holds some blocks.
InitRpc ==
    /\ QueryIdle
    /\ \E n \in 1..MaxHeight : StoreWithBlocks(n)
    /\ \/ Called(LogsRequests \cup ResolveRequests \cup LookupRequests)
          /\ FilterStore({})
       \/ Called(FilterRequests) /\ \E table \in FilterStores : FilterStore(table)

NextRpc ==
    \/ ResolveBlockSpec
    \/ GetLogsLatest
    \/ GetLogsSelect
    \/ Lookup
    \/ FilterType
    \/ FilterPoll
    \/ UninstallFilter
    \/ NewFilter

SpecRpc == InitRpc /\ [][NextRpc]_vars

\* A client that creates, polls and uninstalls filters while blocks are
\* committed and the store fails and recovers.
InitFilter ==
    /\ QueryIdle
    /\ \E n \in 0..1 : StoreWithBlocks(n)
    /\ RpcIdle

NextFilter ==
    \/ CallFilter
    \/ FilterType
    \/ FilterPoll
    \/ UninstallFilter
    \/ NewFilter
    \/ CommitBlock
    \/ StoreFault
    \/ StoreRecover

SpecFilter == InitFilter /\ [][NextFilter]_vars

TypeOK ==
    /\ pc \in Running \cup {"init", "failed"}
    /\ blockID \in 0..MaxHeight
    /\ Len(chain) <= MaxHeight

\* ------------------------------------------------------------- claims
StoreVars == <<blockTable, transactionTable>>

\* The transactions of source block h.
SourceTxs(h) == getBlock(h).transactions

\* Height h is fully persisted: its block row and one row per source transaction.
Complete(h) ==
    /\ h \in BlockIDs
    /\ Produced(h)
    /\ Cardinality(TxRows(h)) = Len(SourceTxs(h))
    /\ {transactionTable[i].hash : i \in TxRows(h)}
          = {SourceTxs(h)[k] : k \in 1..Len(SourceTxs(h))}

\* C1: the block heights recorded are exactly 0..N-1, N the number of block
\* rows: no height is skipped and none is recorded twice, whatever the number
\* of retries before each success.
C1_GapFree == BlockIDs = 0..(Len(blockTable) - 1)

C1_Witness ==
    /\ Len(blockTable) >= 2
    /\ pc = "sleep"
    /\ blockID >= 2

\* C2: a reader never sees the block row of height h while transactions of
\* source block h are missing.
C2_ReaderSeesWholeBlock ==
    observed.block =>
        /\ Produced(observed.height)
        /\ observed.transactions = Len(SourceTxs(observed.height))

\* C3: the first height a process requests after start is max+1, max the
\* largest height in the store, or 0 when the store holds no block.
C3_ResumeFromStore ==
    [][(fetched = {} /\ fetched' # {}) =>
          fetched' = {IF BlockIDs = {} THEN 0 ELSE SetMax(BlockIDs) + 1}]_vars

\* A process started after a crash that left block 1 without its transactions.
C3_Witness ==
    /\ fetched = {2}
    /\ pc = "fetch"
    /\ Produced(1)
    /\ ~Complete(1)

\* C4: every transaction row carries the 0-based source position of its
\* transaction as in-block index, no (block, index) pair is used twice, and
\* when indexBlock(h) returns the indices of h are exactly 0..n-1.
C4_RowsMatchSource ==
    /\ \A i \in 1..Len(transactionTable) :
          LET r == transactionTable[i] IN
            /\ Produced(r.block)
            /\ r.index \in 0..(Len(SourceTxs(r.block)) - 1)
            /\ r.hash = SourceTxs(r.block)[r.index + 1]
    /\ \A i, j \in 1..Len(transactionTable) :
          (/\ transactionTable[i].block = transactionTable[j].block
           /\ transactionTable[i].index = transactionTable[j].index) => i = j

C4_IndexBlockReturns ==
    (pc \in {"insertBlock", "insertTx"} /\ pc' = "fetch") =>
        {transactionTable'[i].index : i \in
            {j \in 1..Len(transactionTable') : transactionTable'[j].block = blockID}}
          = 0..(Len(block.transactions) - 1)

C4_InBlockIndex == [](C4_RowsMatchSource) /\ [][C4_IndexBlockReturns]_vars

C4_Witness ==
    /\ Cardinality(TxRows(1)) = 2
    /\ blockID = 2

\* C5: while the source has not produced height h the task stays at h: it
\* writes nothing, does not move the watermark and requests no other height;
\* it never stops requesting; and a block the source has returned is persisted
\* with all its transactions.
C5_Polling == pc \in {"fetch", "sleep"} /\ ~Produced(blockID)

C5_StaysAtHeight ==
    C5_Polling =>
        /\ pc' \in {"fetch", "sleep"}
        /\ UNCHANGED <<blockID, blockTable, transactionTable>>
        /\ fetched' \subseteq (fetched \cup {blockID})

C5_BlockingPoll ==
    /\ [][C5_StaysAtHeight]_vars
    /\ []<>(pc = "fetch")
    /\ \A h \in 0..(MaxHeight - 1) :
          (pc = "insertBlock" /\ blockID = h) ~> Complete(h)

C5_Witness ==
    /\ pc = "sleep"
    /\ ~Produced(blockID)
    /\ blockID >= 1
    /\ Complete(blockID - 1)

\* C6: a rejected store write at height h ends the loop: the step writes
\* nothing and leaves the watermark at h, the terminated task fetches and
\* writes nothing more, and the heights stay gap-free and unrepeated.
C6_WriteRejected == pc \in {"insertBlock", "insertTx"} /\ ~storeUp

C6_TaskMoved ==
    <<pc, blockID, txPos, transactionIndex, fetched>>'
        # <<pc, blockID, txPos, transactionIndex, fetched>>

C6_FailStep ==
    (C6_WriteRejected /\ C6_TaskMoved /\ pc' # "init") =>
        /\ pc' = "failed"
        /\ UNCHANGED <<blockID, fetched, blockTable, transactionTable>>

C6_Terminated ==
    (pc = "failed") =>
        /\ UNCHANGED <<blockTable, transactionTable>>
        /\ \/ pc' = "init"
           \/ UNCHANGED <<pc, blockID, fetched>>

C6_FatalWriteFailure ==
    /\ [][C6_FailStep /\ C6_Terminated]_vars
    /\ [](pc = "failed" => BlockIDs = 0..(Len(blockTable) - 1))

C6_Witness ==
    /\ pc = "failed"
    /\ block # NoBlock
    /\ blockID >= 1
    /\ Len(blockTable) >= 1

DigestBytes(t) == IF t = TopicA THEN <<10>> ELSE <<11>>

\* Position p at 0-based place i accepts the event: a wildcard, a digest equal
\* to topic slot i+1, or a candidate set containing topic slot i+1.
PositionAccepts(p, i, ev) ==
    \/ p.kind = "null"
    \/ /\ p.kind = "string"
       /\ i + 1 <= Len(ev)
       /\ ev[i + 1] = DigestBytes(p.topic)
    \/ /\ p.kind = "array"
       /\ i + 1 <= Len(ev)
       /\ \E k \in 1..Len(p.candidates) : ev[i + 1] = DigestBytes(p.candidates[k])

FilterAccepts(t, ev) ==
    \A k \in 1..Len(t.positions) : PositionAccepts(t.positions[k], k - 1, ev)

\* C8: the compiled predicate admits an event exactly when every position
\* accepts it (AND across positions, OR within a position).
C8_TopicSemantics ==
    (qpc = "queried") => ((topicResult = "match") <=> FilterAccepts(topics, event))

\* C9: compileTopics returns null exactly for an absent filter and for [],
\* every other filter compiles to a predicate, and eth_getLogs adds no topic
\* constraint for an absent or empty filter: every event is admitted.
C9_EmptyFilterIsNull ==
    /\ (qpc = "compiled") =>
          ((clauses = NullClause) <=> (~topics.present \/ topics.positions = <<>>))
    /\ (qpc = "queried" /\ (~topics.present \/ topics.positions = <<>>)) =>
          (where = <<>> /\ topicResult = "match")

C9_Witness ==
    /\ qpc = "queried"
    /\ topics = Topics(<<>>)
    /\ where = <<>>
    /\ topicResult = "match"
    /\ event # <<>>

\* C10: a filter with a position that is an empty candidate set admits no
\* event.
C10_EmptyCandidatesMatchNothing ==
    (/\ qpc = "queried"
     /\ \E k \in 1..Len(topics.positions) :
           topics.positions[k] = OneOf(<<>>)) => topicResult = "nomatch"

\* ------------------------------------------------------- block specifiers
\* A literal height: 0x followed by hex digits only.
IsHexLiteral(text) ==
    /\ HasHexPrefix(text)
    /\ Len(text) > 2
    /\ \A i \in 3..Len(text) : HexValue(text[i]) >= 0

\* The integer a literal height denotes.
Denotes(text) == StripZeros(DigitsBits(SubSeq(text, 3, Len(text))))

Resolved ==
    /\ rpcPc = "done"
    /\ request.method = "resolveBlockSpec"
    /\ request.fromBlock.present

\* C11: resolved against the store's maximum height M, 'earliest' is 0,
\* 'latest' and 'pending' are M, and a literal hex height is exactly the
\* integer it denotes, heights beyond 53 bits included.
C11_ResolvesExactly ==
    Resolved =>
        LET text == request.fromBlock.text
        IN  /\ text = Earliest => result = Returns("height", <<>>)
            /\ text \in {Latest, Pending} => result = Returns("height", Bits(MaxID))
            /\ IsHexLiteral(text) => result = Returns("height", Denotes(text))

\* C12: resolution fails with an error for every literal that is neither a
\* tag nor entirely a hex number; it never returns a height for it.
C12_MalformedLiteralFails ==
    (/\ Resolved
     /\ request.fromBlock.text \notin {Earliest, Latest, Pending}
     /\ ~IsHexLiteral(request.fromBlock.text))
        => result.kind = "error"

LogsAnswered ==
    /\ rpcPc = "done"
    /\ request.method = "eth_getLogs"
    /\ result.kind = "rows"

\* C14: without a block hash, eth_getLogs returns only events of blocks b
\* with from <= b <= to for the resolved fromBlock and toBlock, also when one
\* of them resolves to height 0.
C14_RangeRestricts ==
    (LogsAnswered /\ ~request.blockHash.present /\ result.data # <<>>) =>
        LET from == resolveBlockSpec(latestBlockID, request.fromBlock).data
            to == resolveBlockSpec(latestBlockID, request.toBlock).data
        IN  /\ GreaterEq(result.data[1].block, from)
            /\ GreaterEq(to, result.data[1].block)

IsRange(e) == e.op \in {"b.id >=", "b.id <="}
IsHash(e) == e.op = "b.hash ="

\* C15: with a block hash, the block predicate of eth_getLogs is the hash
\* equality and no fromBlock/toBlock bound, whatever the request carries; a
\* hash predicate and a range predicate are never both in the query.
C15_HashTakesPrecedence ==
    /\ (rpcPc = "done" /\ request.method = "eth_getLogs"
            /\ request.blockHash.present /\ result.kind # "error")
         => /\ \E k \in 1..Len(logsWhere) :
                  logsWhere[k] = HashIs(hexToBytes(request.blockHash.text))
            /\ \A k \in 1..Len(logsWhere) : ~IsRange(logsWhere[k])
    /\ ~(\E j, k \in 1..Len(logsWhere) : IsHash(logsWhere[j]) /\ IsRange(logsWhere[k]))

C15_Witness ==
    /\ LogsAnswered
    /\ request.blockHash = Given(HashOfBlock1)
    /\ request.fromBlock = Given(Hex2)
    /\ request.toBlock = Given(Hex2)
    /\ result.data # <<>>
    /\ result.data[1].hash = BlockHashOf(1)

\* ------------------------------------------------------ malformed input
Unparseable(blockSpec) ==
    /\ blockSpec.present
    /\ blockSpec.text \notin {Earliest, Latest, Pending}
    /\ ~IsHexLiteral(blockSpec.text)

Malformed(req) ==
    \/ /\ req.method = "eth_getLogs"
       /\ ~req.blockHash.present
       /\ Unparseable(req.fromBlock) \/ Unparseable(req.toBlock)
    \/ /\ req.method \in FilterMethods
       /\ ~IsHexLiteral(req.id)

\* C13: a request with an unparseable block specifier (eth_getLogs) or an
\* unparseable filter id (eth_getFilterChanges, eth_getFilterLogs,
\* eth_uninstallFilter) fails with an error before any query goes to the store.
C13_FailsBeforeStore ==
    (rpcPc = "done" /\ Malformed(request)) =>
        /\ result.kind = "error"
        /\ queries = <<>>

\* ------------------------------------------------------------ filter id 0
NoOpResult(method) ==
    IF method = "eth_uninstallFilter" THEN Returns("true", <<>>)
    ELSE Returns("rows", <<>>)

C16_Step ==
    (/\ rpcPc = "called"
     /\ request.method \in FilterMethods
     /\ request.id = Hex0
     /\ rpcPc' # rpcPc)
        => /\ rpcPc' = "done"
           /\ result' = NoOpResult(request.method)
           /\ queries' = <<>>
           /\ UNCHANGED <<blockTable, transactionTable, filterTable, filterSeq>>

\* C16: for filter id 0, eth_getFilterChanges and eth_getFilterLogs return
\* the empty sequence and eth_uninstallFilter returns its no-op result; no
\* query is issued and the store is left as it was.
C16_ZeroShortCircuits == [][C16_Step]_vars

C16_Witness ==
    /\ rpcPc = "done"
    /\ request.method = "eth_uninstallFilter"
    /\ request.id = Hex0
    /\ result = Returns("true", <<>>)
    /\ queries = <<>>
    /\ filterTable # {}

\* ------------------------------------------------------- unknown filter
\* C17: eth_getFilterChanges and eth_getFilterLogs with a non-zero id that
\* has no row in table "filter" return the empty sequence, not an error.
C17_UnknownFilterIsEmpty ==
    (/\ rpcPc = "done"
     /\ request.method \in {"eth_getFilterChanges", "eth_getFilterLogs"}
     /\ IsHexLiteral(request.id)
     /\ Denotes(request.id) # <<>>
     /\ \A f \in filterTable : Bits(f.id) # Denotes(request.id)
     /\ storeUp)
        => result = Returns("rows", <<>>)

\* ---------------------------------------------------------------- cursor
C18_Step ==
    (/\ rpcPc = "type"
     /\ rpcPc' = "done"
     /\ request.method = "eth_getFilterChanges"
     /\ result'.kind = "rows")
        => \A f \in FilterRows(parseInt16(request.id)) :
              /\ Items(result'.data) \cap delivered[f.id].items = {}
              /\ delivered[f.id].quiet => result'.data = <<>>

\* C18: for one filter polled by one client, no item is returned by two
\* eth_getFilterChanges calls, and a call that follows another with no block
\* committed in between returns the empty sequence.
C18_CursorForward == [][C18_Step]_vars

C18_Witness ==
    /\ rpcPc = "done"
    /\ request.method = "eth_getFilterChanges"
    /\ result = Returns("rows", <<>>)
    /\ \E f \in FilterRows(parseInt16(request.id)) :
          /\ f.type = "block"
          /\ Cardinality(delivered[f.id].items) >= 2
          /\ delivered[f.id].quiet

\* --------------------------------------------------------- store failure
\* C19: a failure of the store during a call is never turned into a normal
\* result: whichever handler it is, the call fails with an error and does not
\* return null or an empty value.
C19_StoreFailurePropagates ==
    (rpcPc = "done" /\ queries # <<>> /\ ~storeUp) => result.kind = "error"

\* --------------------------------------------------------- missing items
Holds(req) ==
    IF req.method \in BlockLookups THEN BlockRowsFor(req) # <<>>
    ELSE TransactionRowsFor(req) # <<>>

\* C20: a single-item lookup for a block or a transaction the store does not
\* hold returns null: not an empty list, not an error.
C20_MissingIsNull ==
    (/\ rpcPc = "done"
     /\ request.method \in BlockLookups \cup TransactionLookups
     /\ storeUp
     /\ ~Holds(request))
        => result = Returns("null", <<>>)

\* ---------------------------------------------------- all-wildcard filter
AllWildcards(t) ==
    /\ t.present
    /\ t.positions # <<>>
    /\ \A k \in 1..Len(t.positions) : t.positions[k] = Wildcard

\* C21: a non-empty topic filter whose positions are all wildcards puts no
\* constraint on eth_getLogs: the query admits the events that the query of a
\* request without topics admits.
C21_AllWildcardsNoConstraint ==
    (qpc = "queried" /\ AllWildcards(topics)) =>
        topicResult = Admits(TopicWhere(NoTopics), event)

\* ------------------------------------------------------ crash and restart
\* C22: whatever the crashes and restarts of the indexer, every height that
\* has a block row eventually has a row for every transaction of its source
\* block.
C22_RecordedBlockCompletes ==
    \A h \in 0..(MaxHeight - 1) : (h \in BlockIDs) ~> Complete(h)

\* ------------------------------------------------------- upstream records
\* indexBlock(blockID) returns to the loop of start().
IndexBlockReturns == pc \in {"insertBlock", "insertTx"} /\ pc' = "fetch"

C23_Step ==
    /\ (pc = "insertBlock" /\ blockTable' # blockTable)
          => blockTable'[Len(blockTable')].id = blockID
    /\ (pc = "insertTx" /\ transactionTable' # transactionTable)
          => transactionTable'[Len(transactionTable')].block
                = blockTable[Len(blockTable)].id
    /\ IndexBlockReturns => blockID' = MaxID' + 1

\* C23: whatever record the upstream returns for the request of indexBlock(h),
\* the block row written has id h, so the transaction rows written in the call
\* refer to the block row written in the call, and the watermark after the
\* call is the store's maximum height plus 1.
C23_BlockRowHasRequestedId == [][C23_Step]_vars

====
